---- MODULE Spec2Model ----
(***************************************************************************)
(* A model of power-tasker-mobile: the device registry kept in             *)
(* devices.json (add-device, edit-device), the PIN vault and the sign and  *)
(* send flow (sign-send), and the status polling of the Home screen        *)
(* (index).  Text is modelled as sequences of one-character strings, bytes *)
(* as numbers 0..255.  AES/PBKDF2 and the secp256k1 point multiplication   *)
(* are library code: they are modelled symbolically (a ciphertext opens    *)
(* under the key it was sealed with; a point is an injective function of   *)
(* the scalar), their encodings and argument conventions are modelled as   *)
(* the code uses them.                                                     *)
(***************************************************************************)
EXTENDS Integers, Sequences, FiniteSets, TLC

VARIABLES
    store,      \* devices.json: [exists, t, items]
    screen,     \* registry screens: "home" | "add" | "edit"
    editPubkey, \* route parameter of the edit-device screen
    isLoading,  \* isLoading of the screen shown
    dialog,     \* the Alert on display: "none" | "error" | "success" | "confirmDelete"
    last,       \* the handler result on display (history)
    sign,       \* the sign-send screen: [open, device, action, pin, isLoading, ...]
    signLast,   \* what the last handleSign() did (history)
    devices,    \* Home: the devices state, each record with isOnline and isLoading
    deviceListRef, \* Home: deviceListRef.current
    isSubscribed,  \* Home: the flag of the polling effect
    intervalActive, \* Home: the setInterval timer is set
    rounds,     \* Home: the runs of checkAllDevices() started by the timer
    fetches,    \* Home: the number of status requests started (history)
    status,     \* one status computation: its inputs and its result
    call,       \* one use of the vault and the signer: its inputs and its results
    pending,    \* registry mutations that have read the file and not yet written
    scanner     \* the QR scanner of add-device: [visible, scanned, scanCooldown, ...]

registryVars == <<screen, editPubkey, isLoading, dialog, last>>
signVars == <<sign, signLast>>
homeVars == <<devices, deviceListRef, isSubscribed, intervalActive, rounds, fetches>>
vars == <<store, registryVars, signVars, homeVars, status, call, pending, scanner>>

\* ------------------------------------------------------------------ text

Digits == {"0", "1", "2", "3", "4", "5", "6", "7", "8", "9"}
HexLower == {"a", "b", "c", "d", "e", "f"}
HexUpper == {"A", "B", "C", "D", "E", "F"}
HexChars == Digits \cup HexLower \cup HexUpper
Letters == {"h", "t", "p", "s", "r", "i", "o", "c", "l", "n", "x", "z"} \cup HexLower
Blank == " "

HexDigits == <<"0", "1", "2", "3", "4", "5", "6", "7", "8", "9", "a", "b", "c", "d", "e", "f">>

\* the value of one hex digit, either case
HexVal(c) ==
    CASE c \in {"a", "A"} -> 10
      [] c \in {"b", "B"} -> 11
      [] c \in {"c", "C"} -> 12
      [] c \in {"d", "D"} -> 13
      [] c \in {"e", "E"} -> 14
      [] c \in {"f", "F"} -> 15
      [] OTHER -> CHOOSE v \in 0..9 : HexDigits[v + 1] = c

\* n copies of the text s
RECURSIVE Rep(_, _)
Rep(s, n) == IF n = 0 THEN <<>> ELSE s \o Rep(s, n - 1)

\* String.prototype.slice(from, to) with 0 <= from, to
Slice(s, from, to) ==
    LET hi == IF to > Len(s) THEN Len(s) ELSE to
    IN IF from >= hi THEN <<>> ELSE SubSeq(s, from + 1, hi)

\* String.prototype.trim() is empty: the text holds only white space
TrimIsEmpty(s) == \A i \in 1..Len(s) : s[i] = Blank

\* String.prototype.padStart(6, "0")
PadStart6(s) == IF Len(s) >= 6 THEN s ELSE Rep(<<"0">>, 6 - Len(s)) \o s

\* /^\d{6}$/.test(pin) together with pin.length !== 6
IsPin(pin) == Len(pin) = 6 /\ \A i \in 1..6 : pin[i] \in Digits

\* /^[0-9a-fA-F]{64}$/.test(privateKey)
IsHex64(s) == Len(s) = 64 /\ \A i \in 1..64 : s[i] \in HexChars

\* new URL(relayUrl) succeeds: a scheme of letters, ":", and for "//" a host
IsUrl(s) ==
    \E i \in 2..Len(s) :
        /\ s[i] = ":"
        /\ \A j \in 1..(i - 1) : s[j] \in Letters
        /\ Len(s) >= i + 3
        /\ s[i + 1] = "/" /\ s[i + 2] = "/" /\ s[i + 3] # "/"

\* ------------------------------------------------------------------ KeyCodec

\* bytes.map(b => b.toString(16).padStart(2, "0")).join("")
bytesToHex(bytes) ==
    [i \in 1..(2 * Len(bytes)) |->
        IF i % 2 = 1 THEN HexDigits[(bytes[(i + 1) \div 2] \div 16) + 1]
        ELSE HexDigits[(bytes[i \div 2] % 16) + 1]]

\* parseInt(pair, 16): the longest hex prefix, NaN (stored as 0 in a Uint8Array) if none
ParseInt16(pair) ==
    IF Len(pair) = 0 \/ pair[1] \notin HexChars THEN 0
    ELSE IF Len(pair) = 1 \/ pair[2] \notin HexChars THEN HexVal(pair[1])
    ELSE 16 * HexVal(pair[1]) + HexVal(pair[2])

\* privKey.match(/.{1,2}/g)?.map((byte) => parseInt(byte, 16)) || []
hexToBytes(s) ==
    [i \in 1..((Len(s) + 1) \div 2) |-> ParseInt16(Slice(s, 2 * i - 2, 2 * i))]

\* the value callers test with "!x": undefined and the empty text are both falsy
Undefined == <<>>

\* ------------------------------------------------------------------ KeyPair

\* the order n of the secp256k1 group, big-endian bytes
CurveOrder ==
    <<255, 255, 255, 255, 255, 255, 255, 255, 255, 255, 255, 255, 255, 255, 255, 254,
      186, 174, 220, 230, 175, 72, 160, 59, 191, 210, 94, 140, 208, 54, 65, 65>>

\* a < b for big-endian byte strings of one length
RECURSIVE BytesLess(_, _)
BytesLess(a, b) ==
    IF a = <<>> \/ b = <<>> THEN FALSE
    ELSE IF a[1] # b[1] THEN a[1] < b[1]
    ELSE BytesLess(Tail(a), Tail(b))

\* noble's check of a private key: 32 bytes, 0 < d < n
IsValidScalar(bytes) ==
    /\ Len(bytes) = 32
    /\ \E i \in 1..32 : bytes[i] # 0
    /\ BytesLess(bytes, CurveOrder)

\* the affine coordinates of d*G, 32 bytes each: the scalar multiplication is
\* library code, kept here as an injective function of the scalar
PointX(d) == [i \in 1..32 |-> (5 * d[i] + 7) % 256]
PointY(d) == [i \in 1..32 |-> (11 * d[33 - i] + 3) % 256]

\* Point.toRawBytes(isCompressed): 02/03 and X, or 04 and X and Y
PointToRawBytes(d, isCompressed) ==
    IF isCompressed
    THEN <<2 + (PointY(d)[32] % 2)>> \o PointX(d)
    ELSE <<4>> \o PointX(d) \o PointY(d)

\* whether secp256k1.getPublicKey(privKeyBytes, ...) throws
LibGetPublicKeyThrows(bytes) == ~IsValidScalar(bytes)

\* secp256k1.getPublicKey(privKeyBytes, isCompressed) of a valid key
LibGetPublicKey(bytes, isCompressed) == PointToRawBytes(bytes, isCompressed)

\* add-device getPublicKey(privKey): the uncompressed key as hex, undefined on a throw
getPublicKey(privKey) ==
    LET privKeyBytes == hexToBytes(privKey)
    IN IF LibGetPublicKeyThrows(privKeyBytes) THEN Undefined
       ELSE bytesToHex(LibGetPublicKey(privKeyBytes, FALSE))

\* ------------------------------------------------------------------ Vault

\* Crypto.getRandomBytesAsync(16): the values the random source may return
BytesA == Rep(<<17>>, 16)
BytesB == Rep(<<202>>, 16)
BytesC == <<0, 7, 128, 255, 1, 2, 3, 4, 5, 6, 7, 8, 9, 10, 11, 12>>
RandomBytes16 == {BytesA, BytesB, BytesC}

\* one 32-bit word of a WordArray from four bytes, as JavaScript's signed |
WordOf(b) ==
    (IF b[1] >= 128 THEN b[1] - 256 ELSE b[1]) * 16777216
    + b[2] * 65536 + b[3] * 256 + b[4]

\* arr[i] || 0 past the end of the array
ByteAt(arr, i) == IF i <= Len(arr) THEN arr[i] ELSE 0

\* uint8ArrayToWordArray() were its words little-endian
uint8ArrayToWordArray_LittleEndian(arr) ==
    [words |-> [w \in 1..((Len(arr) + 3) \div 4) |->
                   WordOf(<<ByteAt(arr, 4 * w), ByteAt(arr, 4 * w - 1),
                            ByteAt(arr, 4 * w - 2), ByteAt(arr, 4 * w - 3)>>)],
     sigBytes |-> Len(arr)]

\* uint8ArrayToWordArray(arr): big-endian words and the byte count
uint8ArrayToWordArray(arr) ==
    [words |-> [w \in 1..((Len(arr) + 3) \div 4) |->
                   WordOf(<<ByteAt(arr, 4 * w - 3), ByteAt(arr, 4 * w - 2),
                            ByteAt(arr, 4 * w - 1), ByteAt(arr, 4 * w)>>)],
     sigBytes |-> Len(arr)]

\* CryptoJS.PBKDF2(password, salt, {keySize: 256 / 32, iterations: 1000}): symbolic
PBKDF2(password, salt) ==
    [password |-> password, salt |-> salt, keySize |-> 8, iterations |-> 1000]

\* CryptoJS.AES.encrypt(privKey, key, {iv, CBC, Pkcs7}).toString(): the base64
\* text of the ciphertext, one symbolic token
AESEncryptToString(plaintext, key, iv) ==
    <<[plaintext |-> plaintext, key |-> key, iv |-> iv]>>

\* encryptPrivateKey() returning the key as it got it
encryptPrivateKey_Plaintext(privKey, pinCode, saltBytes, ivBytes, throws) == privKey

\* encryptPrivateKey(privKey, pinCode) with the random bytes it drew; undefined
\* when the random source or the cipher throws
encryptPrivateKey(privKey, pinCode, saltBytes, ivBytes, throws) ==
    IF throws THEN Undefined
    ELSE LET salt == uint8ArrayToWordArray(saltBytes)
             iv == uint8ArrayToWordArray(ivBytes)
             key == PBKDF2(PadStart6(pinCode), salt)
         IN bytesToHex(saltBytes) \o bytesToHex(ivBytes)
            \o AESEncryptToString(privKey, key, iv)

\* ------------------------------------------------------------------ DeviceStore

\* the content of devices.json as JSON.parse sees it
NoFile == [exists |-> FALSE, t |-> "none", items |-> <<>>]
Unparseable == [exists |-> TRUE, t |-> "unparseable", items |-> <<>>]
NotAList == [exists |-> TRUE, t |-> "object", items |-> <<>>]

\* JSON.stringify(devices, null, 2) written to the file
JSONStringify(list) == [exists |-> TRUE, t |-> "array", items |-> list]

\* FileSystem.readAsStringAsync followed by JSON.parse throws
ReadParseThrows(file) == ~file.exists \/ file.t = "unparseable"

\* Array.isArray(JSON.parse(content))
IsArray(file) == file.t = "array"

\* add-device loadExistingDevices(): [] when the file is missing, cannot be
\* parsed or holds no list
loadExistingDevices(file) ==
    IF ~file.exists THEN <<>>
    ELSE IF ReadParseThrows(file) THEN <<>>
    ELSE IF IsArray(file) THEN file.items ELSE <<>>

\* ------------------------------------------------------------------ add-device

NoError == ""

\* add-device validateInputs(): the first complaint, or null
validateInputs(f) ==
    IF TrimIsEmpty(f.privateKey) THEN "Private key is required"
    ELSE IF TrimIsEmpty(f.deviceName) THEN "Device name is required"
    ELSE IF TrimIsEmpty(f.relayUrl) THEN "Relay URL is required"
    ELSE IF ~IsPin(f.pin) THEN "PIN must be exactly 6 digits"
    ELSE IF ~IsHex64(f.privateKey) THEN "Invalid private key format"
    ELSE IF ~IsUrl(f.relayUrl) THEN "Invalid relay URL format"
    ELSE NoError

Alert(title, message) == <<title, message>>

\* the duplicate checks of saveDevice(): the name first, then the pubkey
duplicateError_PubkeyFirst(existing, deviceName, pubkey) ==
    IF \E i \in 1..Len(existing) : existing[i].pubkey = pubkey
    THEN "A device with this public key already exists"
    ELSE IF \E i \in 1..Len(existing) : existing[i].deviceName = deviceName
    THEN "A device with this name already exists"
    ELSE NoError

duplicateError(existing, deviceName, pubkey) ==
    IF \E i \in 1..Len(existing) : existing[i].deviceName = deviceName
    THEN "A device with this name already exists"
    ELSE IF \E i \in 1..Len(existing) : existing[i].pubkey = pubkey
    THEN "A device with this public key already exists"
    ELSE NoError

\* what one handler run leaves: the file, the alerts raised, isLoading, success
Outcome(file, alerts, loading, ok) ==
    [file |-> file, alerts |-> alerts, isLoading |-> loading, ok |-> ok]

\* saveDevice() without its test of encryptedPrivKey
saveDevice_EncryptionUnchecked(file, f, saltBytes, ivBytes, fault) ==
    LET validationError == validateInputs(f)
        pubkey == getPublicKey(f.privateKey)
        encryptedPrivKey ==
            encryptPrivateKey(f.privateKey, f.pin, saltBytes, ivBytes, fault = "encrypt")
        existing == loadExistingDevices(file)
        duplicate == duplicateError(existing, f.deviceName, pubkey)
        newDevice == [pubkey |-> pubkey, deviceName |-> f.deviceName,
                      relayUrl |-> f.relayUrl, encryptedPrivKey |-> encryptedPrivKey]
    IN IF validationError # NoError
       THEN Outcome(file, <<Alert("Validation Error", validationError)>>, FALSE, FALSE)
       ELSE IF pubkey = Undefined
       THEN Outcome(file, <<Alert("Error", "Failed to generate public key")>>, FALSE, FALSE)
       ELSE IF duplicate # NoError
       THEN Outcome(file, <<Alert("Error", duplicate)>>, FALSE, FALSE)
       ELSE IF fault = "write"
       THEN Outcome(file, <<Alert("Error", "write failed")>>, FALSE, FALSE)
       ELSE Outcome(JSONStringify(Append(existing, newDevice)),
                    <<Alert("Success", "Device added successfully")>>, FALSE, TRUE)

\* saveDevice() on the form f, with the random bytes drawn and the step that
\* throws, if any ("encrypt", "write" or "none")
saveDevice(file, f, saltBytes, ivBytes, fault) ==
    LET validationError == validateInputs(f)
        pubkey == getPublicKey(f.privateKey)
        encryptedPrivKey ==
            encryptPrivateKey(f.privateKey, f.pin, saltBytes, ivBytes, fault = "encrypt")
        existing == loadExistingDevices(file)
        duplicate == duplicateError(existing, f.deviceName, pubkey)
        newDevice == [pubkey |-> pubkey, deviceName |-> f.deviceName,
                      relayUrl |-> f.relayUrl, encryptedPrivKey |-> encryptedPrivKey]
    IN IF validationError # NoError
       THEN Outcome(file, <<Alert("Validation Error", validationError)>>, FALSE, FALSE)
       ELSE IF pubkey = Undefined
       THEN Outcome(file, <<Alert("Error", "Failed to generate public key")>>, FALSE, FALSE)
       ELSE IF duplicate # NoError
       THEN Outcome(file, <<Alert("Error", duplicate)>>, FALSE, FALSE)
       ELSE IF encryptedPrivKey = Undefined
       THEN Outcome(file, <<Alert("Error", "Failed to encrypt private key")>>, FALSE, FALSE)
       ELSE IF fault = "write"
       THEN Outcome(file, <<Alert("Error", "write failed")>>, FALSE, FALSE)
       ELSE Outcome(JSONStringify(Append(existing, newDevice)),
                    <<Alert("Success", "Device added successfully")>>, FALSE, TRUE)

\* ------------------------------------------------------------------ edit-device

\* edit-device validateInputs(): the first complaint, or null
validateEditInputs(deviceName, relayUrl) ==
    IF TrimIsEmpty(deviceName) THEN "Device name is required"
    ELSE IF TrimIsEmpty(relayUrl) THEN "Relay URL is required"
    ELSE IF ~IsUrl(relayUrl) THEN "Invalid relay URL format"
    ELSE NoError

\* saveChanges() building the updated record anew, without ...device
saveChanges_WithoutSpread(file, pubkey, deviceName, relayUrl, fault) ==
    LET validationError == validateEditInputs(deviceName, relayUrl)
        Update(device) ==
            IF device.pubkey = pubkey
            THEN [device EXCEPT !.deviceName = deviceName, !.relayUrl = relayUrl,
                                !.encryptedPrivKey = <<>>]
            ELSE device
    IN IF validationError # NoError
       THEN Outcome(file, <<Alert("Validation Error", validationError)>>, FALSE, FALSE)
       ELSE IF ReadParseThrows(file) \/ ~IsArray(file) \/ fault = "write"
       THEN Outcome(file, <<Alert("Error", "Failed to update device")>>, FALSE, FALSE)
       ELSE Outcome(JSONStringify([i \in 1..Len(file.items) |-> Update(file.items[i])]),
                    <<Alert("Success", "Device updated successfully")>>, FALSE, TRUE)

\* saveChanges() of the screen opened for pubkey, with the fields as typed
saveChanges(file, pubkey, deviceName, relayUrl, fault) ==
    LET validationError == validateEditInputs(deviceName, relayUrl)
        Update(device) ==
            IF device.pubkey = pubkey
            THEN [device EXCEPT !.deviceName = deviceName, !.relayUrl = relayUrl]
            ELSE device
    IN IF validationError # NoError
       THEN Outcome(file, <<Alert("Validation Error", validationError)>>, FALSE, FALSE)
       ELSE IF ReadParseThrows(file) \/ ~IsArray(file) \/ fault = "write"
       THEN Outcome(file, <<Alert("Error", "Failed to update device")>>, FALSE, FALSE)
       ELSE Outcome(JSONStringify([i \in 1..Len(file.items) |-> Update(file.items[i])]),
                    <<Alert("Success", "Device updated successfully")>>, FALSE, TRUE)

\* deleteDevice() keeping only the records before the one deleted
deleteDevice_Truncating(file, pubkey, fault) ==
    LET Others(device) == device.pubkey # pubkey
        Cut(list) == IF \E i \in 1..Len(list) : ~Others(list[i])
                     THEN SubSeq(list, 1, (CHOOSE i \in 1..Len(list) : ~Others(list[i])) - 1)
                     ELSE list
    IN IF ReadParseThrows(file) \/ ~IsArray(file) \/ fault = "write"
       THEN Outcome(file, <<Alert("Error", "Failed to delete device")>>, FALSE, FALSE)
       ELSE Outcome(JSONStringify(Cut(file.items)),
                    <<Alert("Success", "Device deleted successfully")>>, TRUE, TRUE)

\* the Delete button of the confirmation dialog of deleteDevice()
deleteDevice(file, pubkey, fault) ==
    LET Others(device) == device.pubkey # pubkey
    IN IF ReadParseThrows(file) \/ ~IsArray(file) \/ fault = "write"
       THEN Outcome(file, <<Alert("Error", "Failed to delete device")>>, FALSE, FALSE)
       ELSE Outcome(JSONStringify(SelectSeq(file.items, Others)),
                    <<Alert("Success", "Device deleted successfully")>>, TRUE, TRUE)

\* edit-device loadDevice() on mount fails: the screen alerts and goes back
loadDeviceThrows(file) == ReadParseThrows(file) \/ ~IsArray(file)

\* ------------------------------------------------------------------ inputs

K01 == Rep(<<"0", "1">>, 32)
Kab == Rep(<<"a", "b">>, 32)
KAB == Rep(<<"A", "B">>, 32)
Kzero == Rep(<<"0">>, 64)
Kshort == Rep(<<"0", "1">>, 31)
KeyInputs == {K01, Kab, KAB, Kzero, Kshort}

NameInputs == {<<"p", "c">>, <<"n", "a", "s">>, <<" ">>}

Url1 == <<"h", "t", "t", "p", "s", ":", "/", "/", "r", ".", "i", "o">>
Url2 == <<"h", "t", "t", "p", ":", "/", "/", "r", ".", "i", "o", "/">>
BadUrl == <<"r", ".", "i", "o">>

Pin1 == <<"1", "2", "3", "4", "5", "6">>
Pin2 == <<"6", "5", "4", "3", "2", "1">>
ShortPin == <<"1", "2", "3", "4", "5">>

\* what the user may have typed into the add-device form: any of the fields
\* malformed, one at a time
AddForms ==
    {f \in [privateKey : KeyInputs, deviceName : NameInputs, relayUrl : {Url1, BadUrl},
            pin : {Pin1, ShortPin}] :
        \/ validateInputs(f) = NoError
        \/ validateInputs([f EXCEPT !.privateKey = K01]) = NoError
        \/ validateInputs([f EXCEPT !.deviceName = <<"p", "c">>]) = NoError
        \/ validateInputs([f EXCEPT !.relayUrl = Url1]) = NoError
        \/ validateInputs([f EXCEPT !.pin = Pin1]) = NoError}

\* the pubkey route parameter the edit-device screen may be opened with
RoutePubkeys == {getPublicKey(K01), getPublicKey(Kab)}

Faults == {"none", "encrypt", "write"}

\* ------------------------------------------------------------------ registry screens

History(op, args, pre, out) ==
    [op |-> op, args |-> args, pre |-> pre, alerts |-> out.alerts, ok |-> out.ok]

DialogOf(out) == IF out.ok THEN "success" ELSE "error"

\* useState<Device | null>(null)
NoDevice == [pubkey |-> <<>>, deviceName |-> <<>>, relayUrl |-> <<>>, encryptedPrivKey |-> <<>>]

\* no result of signCommand
NoSigned == [publicKeyHex |-> <<>>, signatureHex |-> <<>>, command |-> <<>>]

\* the sign-send screen is not on the stack
SignClosed ==
    [open |-> FALSE, device |-> NoDevice, action |-> <<>>, pin |-> <<>>, isLoading |-> FALSE,
     showSuccessModal |-> FALSE, alertOpen |-> FALSE]

NoSignResult ==
    [op |-> "none", pin |-> <<>>, now |-> <<>>, decrypt |-> "none", fetch |-> "none",
     alerts |-> <<>>, requests |-> <<>>, signed |-> NoSigned]

\* no handler result is on display
NoResult == [op |-> "none", args |-> <<>>, pre |-> NoFile, alerts |-> <<>>, ok |-> FALSE]

\* no status computation is under way
NoStatus == [at |-> <<>>, elapsed |-> 0, lastfetched |-> <<>>, phase |-> "none",
             isOnline |-> FALSE]

\* the registry screens, the sign screen, the Home screen before they are used
RegistryIdle ==
    /\ screen = "home"
    /\ editPubkey = Undefined
    /\ isLoading = FALSE
    /\ dialog = "none"
    /\ last = NoResult

SignIdle == sign = SignClosed /\ signLast = NoSignResult

HomeIdle ==
    /\ devices = <<>>
    /\ deviceListRef = <<>>
    /\ isSubscribed = FALSE
    /\ intervalActive = FALSE
    /\ rounds = <<>>
    /\ fetches = 0

StatusIdle == status = NoStatus

\* no use of the vault under way, no registry mutation in flight
NoCall == [phase |-> "none"]
CallIdle == call = NoCall /\ pending = <<>>

\* add-device with its scanner Modal hidden: no QrCodeScanner is mounted
NoScan == [data |-> <<>>, outcome |-> "none"]
ScannerClosed ==
    [visible |-> FALSE, instance |-> 0, hasPermission |-> "null", scanned |-> FALSE,
     scanCooldown |-> FALSE, alertOpen |-> FALSE, timers |-> {}, privateKey |-> <<>>,
     last |-> NoScan]
ScannerIdle == scanner = ScannerClosed

InitRegistry ==
    /\ store \in {NoFile, Unparseable, NotAList, JSONStringify(<<>>)}
    /\ RegistryIdle /\ SignIdle /\ HomeIdle /\ StatusIdle /\ CallIdle /\ ScannerIdle

\* Home: router.push("/add-device")
OpenAdd ==
    /\ screen = "home" /\ dialog = "none"
    /\ screen' = "add"
    /\ isLoading' = FALSE
    /\ UNCHANGED <<store, editPubkey, dialog, last>>
    /\ UNCHANGED <<signVars, homeVars, status, call, pending, scanner>>

\* Home: router.push("/edit-device", {pubkey}); the screen mounts and runs
\* loadDevice(), which alerts and goes back when the file cannot be read
OpenEdit(pubkey) ==
    /\ screen = "home" /\ dialog = "none"
    /\ isLoading' = FALSE
    /\ IF loadDeviceThrows(store)
       THEN /\ screen' = "home"
            /\ dialog' = "error"
            /\ last' = [op |-> "loadDevice", args |-> pubkey, pre |-> store,
                        alerts |-> <<Alert("Error", "Failed to load device details")>>,
                        ok |-> FALSE]
            /\ UNCHANGED <<store, editPubkey>>
       ELSE /\ screen' = "edit"
            /\ editPubkey' = pubkey
            /\ UNCHANGED <<store, dialog, last>>
    /\ UNCHANGED <<signVars, homeVars, status, call, pending, scanner>>

\* the back gesture on add-device or edit-device
Back ==
    /\ screen \in {"add", "edit"} /\ dialog = "none"
    /\ screen' = "home"
    /\ UNCHANGED <<store, editPubkey, isLoading, dialog, last>>
    /\ UNCHANGED <<signVars, homeVars, status, call, pending, scanner>>

\* the OK button of an alert; after a success it runs router.back()
DismissAlert ==
    /\ dialog \in {"error", "success"}
    /\ dialog' = "none"
    /\ screen' = IF dialog = "success" THEN "home" ELSE screen
    /\ last' = NoResult
    /\ UNCHANGED <<store, editPubkey, isLoading>>
    /\ UNCHANGED <<signVars, homeVars, status, call, pending, scanner>>

\* add-device: the Save Device button
SaveDevice(f, saltBytes, ivBytes, fault) ==
    /\ screen = "add" /\ dialog = "none" /\ ~isLoading
    /\ LET out == saveDevice(store, f, saltBytes, ivBytes, fault)
       IN /\ store' = out.file
          /\ isLoading' = out.isLoading
          /\ dialog' = DialogOf(out)
          /\ last' = History("saveDevice", f, store, out)
    /\ UNCHANGED <<screen, editPubkey>>
    /\ UNCHANGED <<signVars, homeVars, status, call, pending, scanner>>

\* edit-device: the Save Changes button
SaveChanges(deviceName, relayUrl, fault) ==
    /\ screen = "edit" /\ dialog = "none" /\ ~isLoading
    /\ LET out == saveChanges(store, editPubkey, deviceName, relayUrl, fault)
       IN /\ store' = out.file
          /\ isLoading' = out.isLoading
          /\ dialog' = DialogOf(out)
          /\ last' = History("saveChanges",
                             [pubkey |-> editPubkey, deviceName |-> deviceName,
                              relayUrl |-> relayUrl], store, out)
    /\ UNCHANGED <<screen, editPubkey>>
    /\ UNCHANGED <<signVars, homeVars, status, call, pending, scanner>>

\* edit-device: the Delete Device button opens the confirmation
DeleteDevice ==
    /\ screen = "edit" /\ dialog = "none" /\ ~isLoading
    /\ dialog' = "confirmDelete"
    /\ UNCHANGED <<store, screen, editPubkey, isLoading, last>>
    /\ UNCHANGED <<signVars, homeVars, status, call, pending, scanner>>

\* the Cancel button of the confirmation
DeleteCancel ==
    /\ dialog = "confirmDelete"
    /\ dialog' = "none"
    /\ UNCHANGED <<store, screen, editPubkey, isLoading, last>>
    /\ UNCHANGED <<signVars, homeVars, status, call, pending, scanner>>

\* the Delete button of the confirmation
DeleteConfirm(fault) ==
    /\ dialog = "confirmDelete"
    /\ LET out == deleteDevice(store, editPubkey, fault)
       IN /\ store' = out.file
          /\ isLoading' = out.isLoading
          /\ dialog' = DialogOf(out)
          /\ last' = History("deleteDevice", editPubkey, store, out)
    /\ UNCHANGED <<screen, editPubkey>>
    /\ UNCHANGED <<signVars, homeVars, status, call, pending, scanner>>

NextRegistry ==
    \/ OpenAdd
    \/ \E pubkey \in RoutePubkeys : OpenEdit(pubkey)
    \/ Back
    \/ DismissAlert
    \/ \E f \in AddForms, saltBytes \in {BytesA}, ivBytes \in {BytesB}, fault \in Faults :
          SaveDevice(f, saltBytes, ivBytes, fault)
    \/ \E deviceName \in NameInputs, relayUrl \in {Url1, Url2, BadUrl},
          fault \in {"none", "write"} : SaveChanges(deviceName, relayUrl, fault)
    \/ DeleteDevice
    \/ DeleteCancel
    \/ \E fault \in {"none", "write"} : DeleteConfirm(fault)

Spec == InitRegistry /\ [][NextRegistry]_vars

\* ------------------------------------------------------------------ registry claims

\* the records of a file that holds a list
Records(file) == IF file.exists /\ file.t = "array" THEN file.items ELSE <<>>

NameIn(file, deviceName) ==
    \E i \in 1..Len(Records(file)) : Records(file)[i].deviceName = deviceName

PubkeyIn(file, pubkey) ==
    \E i \in 1..Len(Records(file)) : Records(file)[i].pubkey = pubkey

\* C1: in every reachable state of the persisted collection no two records
\* share a pubkey and no two records share a deviceName.
C1_UniqueKeysAndNames ==
    \A i, j \in 1..Len(Records(store)) :
        i # j => /\ Records(store)[i].pubkey # Records(store)[j].pubkey
                 /\ Records(store)[i].deviceName # Records(store)[j].deviceName

\* the form of an add passes validation and its key has a public key
AddIsWellFormed(f) == validateInputs(f) = NoError /\ getPublicKey(f.privateKey) # Undefined

\* C2: an add whose deviceName or derived pubkey equals that of an existing
\* record writes nothing; a well-formed add then reports the name error when
\* the name collides and the pubkey error when only the pubkey collides.
C2_DuplicateAddRejected ==
    last.op = "saveDevice" =>
        LET f == last.args
            nameTaken == NameIn(last.pre, f.deviceName)
            pubkeyTaken == getPublicKey(f.privateKey) # Undefined
                           /\ PubkeyIn(last.pre, getPublicKey(f.privateKey))
        IN /\ (nameTaken \/ pubkeyTaken) => store = last.pre /\ ~last.ok
           /\ (AddIsWellFormed(f) /\ nameTaken) =>
                 last.alerts = <<Alert("Error", "A device with this name already exists")>>
           /\ (AddIsWellFormed(f) /\ ~nameTaken /\ pubkeyTaken) =>
                 last.alerts =
                     <<Alert("Error", "A device with this public key already exists")>>

\* C2 witness: an add colliding in both name and pubkey got the name error
C2_Witness ==
    /\ last.op = "saveDevice"
    /\ AddIsWellFormed(last.args)
    /\ NameIn(last.pre, last.args.deviceName)
    /\ PubkeyIn(last.pre, getPublicKey(last.args.privateKey))
    /\ last.alerts = <<Alert("Error", "A device with this name already exists")>>
    /\ store = last.pre

\* the file holds text that is no list of devices
Malformed(file) == file.exists /\ file.t \in {"unparseable", "object"}

\* C3: an add on a store holding malformed content fails and does not write.
C3_CorruptStoreRefused ==
    (last.op = "saveDevice" /\ Malformed(last.pre)) => (store = last.pre /\ ~last.ok)

\* C4: an update for a pubkey that matches no record never reports success.
C4_UpdateOfMissingFails ==
    (last.op = "saveChanges" /\ ~PubkeyIn(last.pre, last.args.pubkey)) => ~last.ok

\* ------------------------------------------------------------------ Vault: decrypt

\* CryptoJS.enc.Hex.parse(hexStr): every two characters one byte, packed into words
HexParse(hexStr) ==
    LET bytes == hexToBytes(hexStr)
    IN [words |-> [w \in 1..((Len(hexStr) + 7) \div 8) |->
                      WordOf(<<ByteAt(bytes, 4 * w - 3), ByteAt(bytes, 4 * w - 2),
                               ByteAt(bytes, 4 * w - 1), ByteAt(bytes, 4 * w)>>)],
        sigBytes |-> Len(hexStr) \div 2]

\* CryptoJS.enc.Base64.parse(encryptedData): the ciphertext the text encodes
Base64Parse(text) == text[1]

\* what AES-CBC/Pkcs7 decryption under a wrong key, read as UTF-8, may give:
\* bytes that are no UTF-8 (toString throws), no bytes at all, or some text
WrongKeyOutcomes == {"malformed", "empty", "garbage"}

\* text that a wrong key may leave: no private key
Garbage == <<"4", "f", "?">>

\* decryptPrivateKey(encryptedPrivKey, pinCode): the text, or undefined with an
\* alert when decryption throws
decryptPrivateKey(encryptedPrivKey, pinCode, wrongKeyOutcome) ==
    LET saltHex == Slice(encryptedPrivKey, 0, 32)
        ivHex == Slice(encryptedPrivKey, 32, 64)
        encryptedData == Slice(encryptedPrivKey, 64, Len(encryptedPrivKey))
        salt == HexParse(saltHex)
        iv == HexParse(ivHex)
        key == PBKDF2(PadStart6(pinCode), salt)
        ciphertext == Base64Parse(encryptedData)
    IN IF ciphertext.key = key /\ ciphertext.iv = iv
       THEN [value |-> ciphertext.plaintext, alerts |-> <<>>]
       ELSE IF wrongKeyOutcome = "malformed"
       THEN [value |-> Undefined, alerts |-> <<Alert("Error", "Invalid PIN.")>>]
       ELSE IF wrongKeyOutcome = "empty"
       THEN [value |-> <<>>, alerts |-> <<>>]
       ELSE [value |-> Garbage, alerts |-> <<>>]

\* ------------------------------------------------------------------ CommandSigner

\* a Date, as its UTC fields
Instant(year, month, day, hours, minutes, seconds, ms) ==
    [year |-> year, month |-> month, day |-> day, hours |-> hours,
     minutes |-> minutes, seconds |-> seconds, ms |-> ms]

\* the decimal digits of n >= 0, padded with zeros to width w
RECURSIVE Pad(_, _)
Pad(n, w) ==
    IF w <= 1 /\ n < 10 THEN <<HexDigits[n + 1]>>
    ELSE Pad(n \div 10, w - 1) \o <<HexDigits[(n % 10) + 1]>>

\* Date.prototype.toISOString(): years outside 0..9999 get a sign and six digits
toISOString(d) ==
    (IF d.year >= 0 /\ d.year <= 9999 THEN Pad(d.year, 4)
     ELSE IF d.year < 0 THEN <<"-">> \o Pad(0 - d.year, 6)
     ELSE <<"+">> \o Pad(d.year, 6))
    \o <<"-">> \o Pad(d.month, 2) \o <<"-">> \o Pad(d.day, 2)
    \o <<"T">> \o Pad(d.hours, 2) \o <<":">> \o Pad(d.minutes, 2)
    \o <<":">> \o Pad(d.seconds, 2) \o <<".">> \o Pad(d.ms, 3) \o <<"Z">>

\* date.toISOString().replace(/[-:.TZ]/g, "").slice(0, 14)
currentTimeOf(d) ==
    LET Kept(c) == c \notin {"-", ":", ".", "T", "Z"}
    IN Slice(SelectSeq(toISOString(d), Kept), 0, 14)

\* Buffer.from(text, "hex"): the bytes of the pairs up to the first pair that
\* parseInt reads as NaN; a trailing odd character is dropped
BufferFromHex(text) ==
    LET n == Len(text) \div 2
        IsNaN(i) == text[2 * i - 1] \notin HexChars
        stop == IF \E i \in 1..n : IsNaN(i)
                THEN (CHOOSE i \in 1..n : IsNaN(i) /\ \A j \in 1..(i - 1) : ~IsNaN(j)) - 1
                ELSE n
    IN [i \in 1..stop |-> ParseInt16(Slice(text, 2 * i - 2, 2 * i))]

\* CryptoJS.SHA256 of the UTF-8 bytes of the command: symbolic
MessageHash(command) == [sha256 |-> [utf8 |-> command]]

\* a signature whose nonce depends on the calls made before
SignatureHex_Counting(messageHash, privateKeyBytes) ==
    <<[signed |-> messageHash, by |-> privateKeyBytes, nonce |-> Len(call.signatures)]>>

\* secp256k1.sign(messageHash, privateKeyBytes).toCompactRawBytes() as hex: the
\* deterministic signature, one symbolic token
SignatureHex(messageHash, privateKeyBytes) ==
    <<[signed |-> messageHash, by |-> privateKeyBytes]>>

\* secp256k1.getPublicKey(privKey, isCompressed = true): the library's default,
\* taken when the call passes one argument
DefaultIsCompressed == TRUE

\* signCommand(command, privateKeyHex): the result, or undefined with an alert
\* when the library throws
signCommand(command, privateKeyHex) ==
    LET privateKeyBytes == BufferFromHex(privateKeyHex)
        messageHash == MessageHash(command)
    IN IF ~IsValidScalar(privateKeyBytes)
       THEN [ok |-> FALSE, result |-> NoSigned,
             alerts |-> <<Alert("Error", "Failed to Sign Command.")>>]
       ELSE [ok |-> TRUE,
             result |-> [publicKeyHex |->
                             <<"0", "4">> \o bytesToHex(LibGetPublicKey(privateKeyBytes,
                                                                        DefaultIsCompressed)),
                         signatureHex |-> SignatureHex(messageHash, privateKeyBytes),
                         command |-> command],
             alerts |-> <<>>]

\* ------------------------------------------------------------------ sign-send

SendCommandPath ==
    <<"a", "p", "i", "/", "r", "e", "q", "u", "e", "s", "t", "/",
      "s", "e", "n", "d", "-", "c", "o", "m", "m", "a", "n", "d">>

\* what fetch() may do: answer 2xx, answer another status, reject
FetchOutcomes == {"2xx", "non2xx", "throws"}

\* what one handleSign() leaves
SignOutcome(alerts, pin, modal, requests, signed) ==
    [alerts |-> alerts, pin |-> pin, showSuccessModal |-> modal, requests |-> requests,
     signed |-> signed]

\* handleSign() on the screen's state, at instant now, with what a wrong key
\* decrypts to and what fetch does
handleSign(view, now, wrongKeyOutcome, fetchOutcome) ==
    LET device == view.device
        currentTime == currentTimeOf(now)
        fullCommand == view.action \o <<"+">> \o currentTime
        decrypted == decryptPrivateKey(device.encryptedPrivKey, view.pin, wrongKeyOutcome)
        privKey == decrypted.value
        signing == signCommand(fullCommand, privKey)
        relay == IF device.relayUrl[Len(device.relayUrl)] = "/"
                 THEN device.relayUrl ELSE device.relayUrl \o <<"/">>
        request == [url |-> relay \o SendCommandPath,
                    body |-> [pubkey |-> device.pubkey,
                              signature |-> signing.result.signatureHex,
                              command |-> signing.result.command]]
    IN IF device = NoDevice \/ view.action = <<>>
       THEN SignOutcome(<<Alert("Error", "Missing device or action data.")>>, view.pin,
                        FALSE, <<>>, NoSigned)
       ELSE IF ~IsPin(view.pin)
       THEN SignOutcome(<<Alert("Error", "PIN must be exactly 6 digits.")>>, view.pin,
                        FALSE, <<>>, NoSigned)
       ELSE IF Len(currentTime) # 14
       THEN SignOutcome(<<Alert("Error", "Failed to get current time.")>>, view.pin,
                        FALSE, <<>>, NoSigned)
       ELSE IF privKey = <<>>
       THEN SignOutcome(decrypted.alerts \o <<Alert("Error", "Invalid PIN.")>>, <<>>,
                        FALSE, <<>>, NoSigned)
       ELSE IF ~signing.ok
       THEN SignOutcome(decrypted.alerts \o signing.alerts
                        \o <<Alert("Error", "Failed to sign command.")>>, view.pin,
                        FALSE, <<>>, NoSigned)
       ELSE IF fetchOutcome = "2xx"
       THEN SignOutcome(<<>>, view.pin, TRUE, <<request>>, signing.result)
       ELSE IF fetchOutcome = "non2xx"
       THEN SignOutcome(<<Alert("Error", "Failed to sign and send command.")>>, view.pin,
                        FALSE, <<request>>, signing.result)
       ELSE SignOutcome(<<>>, view.pin, FALSE, <<request>>, signing.result)

\* sign-send loadDevice(): the alert it raises, or none when the device is found
signLoadError(file, pubkey) ==
    IF ~file.exists THEN "Devices file not found."
    ELSE IF ReadParseThrows(file) \/ ~IsArray(file) THEN "Failed to load device."
    ELSE IF ~\E i \in 1..Len(file.items) : file.items[i].pubkey = pubkey
    THEN "Device not found."
    ELSE NoError

\* devices.find((d) => d.pubkey === pubkey)
FindDevice(file, pubkey) ==
    file.items[CHOOSE i \in 1..Len(file.items) :
                   /\ file.items[i].pubkey = pubkey
                   /\ \A j \in 1..(i - 1) : file.items[j].pubkey # pubkey]

Shutdown == <<"s", "h", "u", "t", "d", "o", "w", "n">>
Sleep == <<"s", "l", "e", "e", "p">>
Wipe == <<"w", "i", "p", "e">>
ActionParams == {Shutdown, Sleep, Wipe, <<>>}

Instants ==
    {Instant(2024, 1, 1, 0, 0, 0, 0), Instant(2026, 11, 3, 14, 8, 59, 123),
     Instant(10000, 1, 1, 0, 0, 0, 0)}

\* the registry the sign screen works on: two devices registered under Pin1
SignStore ==
    LET first == saveDevice(JSONStringify(<<>>),
                            [privateKey |-> K01, deviceName |-> <<"p", "c">>,
                             relayUrl |-> Url1, pin |-> Pin1], BytesA, BytesB, "none").file
    IN saveDevice(first, [privateKey |-> KAB, deviceName |-> <<"n", "a", "s">>,
                          relayUrl |-> Url2, pin |-> Pin1], BytesB, BytesA, "none").file

InitSign ==
    /\ store \in {SignStore, NoFile}
    /\ RegistryIdle /\ SignIdle /\ HomeIdle /\ StatusIdle /\ CallIdle /\ ScannerIdle

\* router.replace("/sign-send", {pubkey, action}): the screen mounts and, given a
\* pubkey, runs loadDevice(), which alerts and goes back when it finds no device
OpenSign(pubkey, action) ==
    /\ ~sign.open /\ ~sign.alertOpen
    /\ LET error == IF pubkey = <<>> THEN NoError ELSE signLoadError(store, pubkey)
       IN IF error # NoError
          THEN /\ sign' = [SignClosed EXCEPT !.alertOpen = TRUE]
               /\ signLast' = [NoSignResult EXCEPT !.op = "loadDevice",
                                                   !.alerts = <<Alert("Error", error)>>]
          ELSE /\ sign' = [SignClosed EXCEPT
                              !.open = TRUE,
                              !.action = action,
                              !.device = IF pubkey = <<>> THEN NoDevice
                                         ELSE FindDevice(store, pubkey)]
               /\ signLast' = NoSignResult
    /\ UNCHANGED <<store, registryVars, homeVars, status, call, pending, scanner>>

\* the PIN field: onChangeText={setPin}
TypePin(text) ==
    /\ sign.open /\ ~sign.isLoading /\ ~sign.alertOpen /\ ~sign.showSuccessModal
    /\ sign.pin # text
    /\ sign' = [sign EXCEPT !.pin = text]
    /\ UNCHANGED <<store, registryVars, signLast, homeVars, status, call, pending, scanner>>

\* the Sign and Send button
HandleSign(now, wrongKeyOutcome, fetchOutcome) ==
    /\ sign.open /\ ~sign.isLoading /\ ~sign.alertOpen /\ ~sign.showSuccessModal
    /\ LET out == handleSign(sign, now, wrongKeyOutcome, fetchOutcome)
       IN /\ sign' = [sign EXCEPT !.pin = out.pin,
                                  !.isLoading = FALSE,
                                  !.showSuccessModal = out.showSuccessModal,
                                  !.alertOpen = out.alerts # <<>>]
          /\ signLast' = [op |-> "handleSign", pin |-> sign.pin, now |-> now,
                          decrypt |-> wrongKeyOutcome, fetch |-> fetchOutcome,
                          alerts |-> out.alerts, requests |-> out.requests,
                          signed |-> out.signed]
    /\ UNCHANGED <<store, registryVars, homeVars, status, call, pending, scanner>>

\* the OK button of an alert
DismissSignAlert ==
    /\ sign.alertOpen
    /\ sign' = [sign EXCEPT !.alertOpen = FALSE]
    /\ signLast' = NoSignResult
    /\ UNCHANGED <<store, registryVars, homeVars, status, call, pending, scanner>>

\* handleReturn(): the success modal closes and the screen goes back
HandleReturn ==
    /\ sign.open /\ sign.showSuccessModal
    /\ sign' = SignClosed
    /\ signLast' = NoSignResult
    /\ UNCHANGED <<store, registryVars, homeVars, status, call, pending, scanner>>

\* the back gesture on sign-send
SignBack ==
    /\ sign.open /\ ~sign.alertOpen /\ ~sign.showSuccessModal
    /\ sign' = SignClosed
    /\ signLast' = NoSignResult
    /\ UNCHANGED <<store, registryVars, homeVars, status, call, pending, scanner>>

NextSign ==
    \/ \E pubkey \in RoutePubkeys \cup {<<>>}, action \in ActionParams :
          OpenSign(pubkey, action)
    \/ \E text \in {Pin1, Pin2, ShortPin} : TypePin(text)
    \/ \E now \in Instants, wrongKeyOutcome \in WrongKeyOutcomes,
          fetchOutcome \in FetchOutcomes : HandleSign(now, wrongKeyOutcome, fetchOutcome)
    \/ DismissSignAlert
    \/ HandleReturn
    \/ SignBack

SpecSign == InitSign /\ [][NextSign]_vars

\* ------------------------------------------------------------------ sign-send claims

InvalidPinAlert == Alert("Error", "Invalid PIN.")
DeliveryFailedAlert == Alert("Error", "Failed to sign and send command.")

\* handleSign() ran with a well-formed PIN that is not the PIN the device was
\* registered under (every device of SignStore is registered under Pin1)
SignedWithWrongPin ==
    /\ signLast.op = "handleSign"
    /\ sign.device # NoDevice /\ sign.action # <<>>
    /\ IsPin(signLast.pin) /\ signLast.pin # Pin1

\* C5: in the sign flow every failure caused by a wrong PIN, whatever its mode,
\* shows the error 'Invalid PIN' and no other message, and transmits nothing.
C5_WrongPinSingleError ==
    SignedWithWrongPin =>
        /\ signLast.alerts # <<>>
        /\ \A i \in 1..Len(signLast.alerts) : signLast.alerts[i] = InvalidPinAlert
        /\ signLast.requests = <<>>

\* C6: once the signed command is handed to fetch, the user sees the success
\* indication on a 2xx answer and one delivery-failed error on every other
\* outcome, a rejected request included.
C6_DeliveryTwoOutcomes ==
    (signLast.op = "handleSign" /\ signLast.requests # <<>>) =>
        IF signLast.fetch = "2xx"
        THEN sign.showSuccessModal /\ signLast.alerts = <<>>
        ELSE ~sign.showSuccessModal /\ signLast.alerts = <<DeliveryFailedAlert>>

\* C7: the public key the signing path re-derives is the uncompressed encoding,
\* 130 hex characters starting with 04, and equals the pubkey derived from the
\* same private key at registration.
C7_SignerPubkeyUncompressed ==
    signLast.signed # NoSigned =>
        /\ Len(signLast.signed.publicKeyHex) = 130
        /\ Slice(signLast.signed.publicKeyHex, 0, 2) = <<"0", "4">>
        /\ signLast.signed.publicKeyHex = sign.device.pubkey

\* ------------------------------------------------------------------ Home: status

\* the number a text of decimal digits writes, -1 when it is not all digits
RECURSIVE NumOf(_)
NumOf(text) ==
    IF text = <<>> THEN 0
    ELSE LET c == text[Len(text)]
             rest == NumOf(SubSeq(text, 1, Len(text) - 1))
         IN IF c \notin Digits \/ rest < 0 THEN 0 - 1 ELSE 10 * rest + HexVal(c)

\* Date.prototype.getTime(), counted in ms from 2024-01-01T00:00:00Z instead of
\* 1970: every instant of the status model lies in January 2024
getTime(d) ==
    ((((d.day - 1) * 24 + d.hours) * 60 + d.minutes) * 60 + d.seconds) * 1000 + d.ms

\* new Date(`${YYYY}-${MM}-${DD}T${HH}:${MM}:${SS}Z`) of the slices of
\* lastfetched: the instant, or an Invalid Date
lastFetchedDate(lastFetched) ==
    LET year == Slice(lastFetched, 0, 4)
        month == Slice(lastFetched, 4, 6)
        day == Slice(lastFetched, 6, 8)
        hours == Slice(lastFetched, 8, 10)
        minutes == Slice(lastFetched, 10, 12)
        seconds == Slice(lastFetched, 12, 14)
        valid == /\ Len(year) = 4 /\ NumOf(year) >= 0
                 /\ Len(month) = 2 /\ NumOf(month) \in 1..12
                 /\ Len(day) = 2 /\ NumOf(day) \in 1..31
                 /\ Len(hours) = 2 /\ NumOf(hours) \in 0..23
                 /\ Len(minutes) = 2 /\ NumOf(minutes) \in 0..59
                 /\ Len(seconds) = 2 /\ NumOf(seconds) \in 0..59
    IN IF valid
       THEN [valid |-> TRUE,
             date |-> Instant(NumOf(year), NumOf(month), NumOf(day), NumOf(hours),
                              NumOf(minutes), NumOf(seconds), 0)]
       ELSE [valid |-> FALSE, date |-> Instant(0, 0, 0, 0, 0, 0, 0)]

\* Math.floor((currentTime - lastFetchedTime) / 1000)
diffInSeconds_RoundedUp(currentTime, lastFetchedTime) ==
    (currentTime - lastFetchedTime + 999) \div 1000

diffInSeconds(currentTime, lastFetchedTime) ==
    (currentTime - lastFetchedTime) \div 1000

\* isOnline of checkDeviceStatus() for an ok response carrying lastfetched, at
\* the instant currentTime (ms); an Invalid Date gives NaN, and NaN <= 60 is false
isOnlineAt(lastFetched, currentTime) ==
    LET parsed == lastFetchedDate(lastFetched)
    IN IF ~parsed.valid THEN FALSE
       ELSE diffInSeconds(currentTime, getTime(parsed.date)) <= 60

\* the relay writes the instant of the last fetch as YYYYMMDDHHMMSS
Format14(d) ==
    Pad(d.year, 4) \o Pad(d.month, 2) \o Pad(d.day, 2)
    \o Pad(d.hours, 2) \o Pad(d.minutes, 2) \o Pad(d.seconds, 2)

\* when the device last fetched, as the relay knows it
LastActiveTimes ==
    {Instant(2024, 1, 1, 0, 0, 0, 0), Instant(2024, 1, 1, 0, 0, 59, 0),
     Instant(2024, 1, 1, 23, 59, 0, 0), Instant(2024, 1, 2, 12, 30, 30, 0)}

\* ms between the last fetch and the moment Home reads the answer
ElapsedTimes ==
    {0 - 500, 0, 1, 999, 1000, 59000, 59999, 60000, 60001, 60500, 60999, 61000, 61001,
     61500, 120000, 3600000}

InitStatus ==
    /\ store = NoFile
    /\ RegistryIdle /\ SignIdle /\ HomeIdle /\ CallIdle /\ ScannerIdle
    /\ status \in {[at |-> at, elapsed |-> elapsed, lastfetched |-> Format14(at),
                    phase |-> "asked", isOnline |-> FALSE] :
                       at \in LastActiveTimes, elapsed \in ElapsedTimes}

\* the relay's answer arrives and checkDeviceStatus() computes isOnline
StatusAnswer ==
    /\ status.phase = "asked"
    /\ status' = [status EXCEPT
                     !.phase = "done",
                     !.isOnline = isOnlineAt(status.lastfetched,
                                             getTime(status.at) + status.elapsed)]
    /\ UNCHANGED <<store, registryVars, signVars, homeVars, call, pending, scanner>>

NextStatus == StatusAnswer

SpecStatus == InitStatus /\ [][NextStatus]_vars

\* C10 as claimed: after a successful status response the device is online if
\* and only if at most 60 s passed between lastfetched and now, so that 60.5 s
\* gives offline.
C10_OnlineIffAtMost60s ==
    status.phase = "done" => (status.isOnline <=> status.elapsed <= 60000)

\* C10 as amended: the device is online if and only if the whole seconds that
\* passed are at most 60, that is if less than 61 s passed: 60 s and 60.5 s
\* give online, 61 s gives offline.
C10_OnlineIffUnder61s ==
    status.phase = "done" => (status.isOnline <=> status.elapsed < 61000)

\* C10 witness: 60.5 s passed and the device was marked online
C10_Witness ==
    status.phase = "done" /\ status.elapsed = 60500 /\ status.isOnline

\* ------------------------------------------------------------------ Home: polling

\* rounds of checkAllDevices() the model follows
MaxRounds == 3

\* Home loadDevices(): the devices of the file, each offline and loading; a
\* missing file leaves the list alone, and so does a file that cannot be parsed
\* or holds no list (the error is caught and logged)
loadDevices(file, current) ==
    IF ~file.exists \/ file.t # "array" THEN current
    ELSE [k \in 1..Len(file.items) |->
             [deviceName |-> file.items[k].deviceName, relayUrl |-> file.items[k].relayUrl,
              pubkey |-> file.items[k].pubkey,
              encryptedPrivKey |-> file.items[k].encryptedPrivKey,
              isOnline |-> FALSE, isLoading |-> TRUE]]

\* what a status request can come to: a 2xx answer with its lastfetched, read
\* elapsed ms after the instant it names; a non-2xx answer; a rejected fetch
Answers ==
    {[kind |-> "ok", lastfetched |-> Format14(Instant(2024, 1, 1, 0, 0, 0, 0)),
      elapsed |-> 30000],
     [kind |-> "ok", lastfetched |-> Format14(Instant(2024, 1, 1, 0, 0, 0, 0)),
      elapsed |-> 61000],
     [kind |-> "ok", lastfetched |-> <<"n", "e", "v", "e", "r">>, elapsed |-> 0],
     [kind |-> "non2xx", lastfetched |-> <<>>, elapsed |-> 0],
     [kind |-> "throws", lastfetched |-> <<>>, elapsed |-> 0]}

\* checkDeviceStatus() were its catch branch to leave isLoading alone
checkDeviceStatus_ErrorsKeepLoading(prev, device, answer) ==
    LET isOnline ==
            IF answer.kind = "ok"
            THEN isOnlineAt(answer.lastfetched,
                            getTime(Instant(2024, 1, 1, 0, 0, 0, 0)) + answer.elapsed)
            ELSE FALSE
    IN [k \in 1..Len(prev) |->
           IF prev[k].pubkey = device.pubkey /\ answer.kind # "throws"
           THEN [prev[k] EXCEPT !.isOnline = isOnline, !.isLoading = FALSE]
           ELSE prev[k]]

\* checkDeviceStatus() once its fetch has settled: the setDevices() update
checkDeviceStatus(prev, device, answer) ==
    LET isOnline ==
            IF answer.kind = "ok"
            THEN isOnlineAt(answer.lastfetched,
                            getTime(Instant(2024, 1, 1, 0, 0, 0, 0)) + answer.elapsed)
            ELSE FALSE
    IN [k \in 1..Len(prev) |->
           IF prev[k].pubkey = device.pubkey
           THEN [prev[k] EXCEPT !.isOnline = isOnline, !.isLoading = FALSE]
           ELSE prev[k]]

\* the for loop of checkAllDevices() goes on to the next device
loopGoesOn_IgnoringTeardown(subscribed, round) == round.i < Len(round.list)

loopGoesOn(subscribed, round) == subscribed /\ round.i < Len(round.list)

\* a round of checkAllDevices() at the head of its loop: it awaits the status
\* request of the next device, or it is over
stepRound(subscribed, round) ==
    IF loopGoesOn(subscribed, round)
    THEN [round EXCEPT !.i = round.i + 1, !.phase = "waiting"]
    ELSE [round EXCEPT !.phase = "done"]

\* the requests started by a step of a round
started(before, after) == IF after.phase = "waiting" /\ after.i > before.i THEN 1 ELSE 0

HomeStores ==
    {NoFile, Unparseable, NotAList, JSONStringify(<<>>),
     JSONStringify(SubSeq(SignStore.items, 1, 1)), SignStore}

\* Home is mounted: the list is empty, the polling effect has run its first
\* checkAllDevices() on the empty list and armed the interval timer
InitHome ==
    /\ store \in HomeStores
    /\ RegistryIdle /\ SignIdle /\ StatusIdle /\ CallIdle /\ ScannerIdle
    /\ devices = <<>>
    /\ deviceListRef = <<>>
    /\ isSubscribed = TRUE
    /\ intervalActive = TRUE
    /\ rounds = <<[list |-> <<>>, i |-> 0, phase |-> "done"]>>
    /\ fetches = 0

\* Home gains focus, the screens above it having left the file as it is now:
\* loadDevices(), and the effect on [devices] copies the list to deviceListRef
FocusHome(file) ==
    /\ isSubscribed
    /\ store' = file
    /\ devices' = loadDevices(file, devices)
    /\ deviceListRef' = devices'
    /\ UNCHANGED <<registryVars, signVars, isSubscribed, intervalActive, rounds, fetches,
                   status, call, pending, scanner>>

\* the interval timer fires: checkAllDevices() takes the list of deviceListRef
\* and starts on its first device
IntervalTick ==
    /\ intervalActive
    /\ Len(rounds) < MaxRounds
    /\ LET fresh == [list |-> deviceListRef, i |-> 0, phase |-> "waiting"]
           round == IF ~isSubscribed THEN [fresh EXCEPT !.phase = "done"]
                    ELSE stepRound(isSubscribed, fresh)
       IN /\ rounds' = Append(rounds, round)
          /\ fetches' = fetches + started(fresh, round)
    /\ UNCHANGED <<store, registryVars, signVars, devices, deviceListRef, isSubscribed,
                   intervalActive, status, call, pending, scanner>>

\* the status request a round awaits settles: checkDeviceStatus() updates the
\* list (a state update of the unmounted screen is dropped), and the loop of
\* the round goes to its next device
Respond(r, answer) ==
    /\ rounds[r].phase = "waiting"
    /\ LET round == rounds[r]
           next == stepRound(isSubscribed, round)
       IN /\ devices' = IF isSubscribed
                         THEN checkDeviceStatus(devices, round.list[round.i], answer)
                         ELSE devices
          /\ deviceListRef' = devices'
          /\ rounds' = [rounds EXCEPT ![r] = next]
          /\ fetches' = fetches + started(round, next)
    /\ UNCHANGED <<store, registryVars, signVars, isSubscribed, intervalActive, status, call,
                   pending, scanner>>

\* the status request a round awaits never settles: fetch has no timeout
Hang(r) ==
    /\ rounds[r].phase = "waiting"
    /\ rounds' = [rounds EXCEPT ![r].phase = "hung"]
    /\ UNCHANGED <<store, registryVars, signVars, devices, deviceListRef, isSubscribed,
                   intervalActive, fetches, status, call, pending, scanner>>

\* the cleanup of the polling effect
Teardown ==
    /\ isSubscribed
    /\ isSubscribed' = FALSE
    /\ intervalActive' = FALSE
    /\ UNCHANGED <<store, registryVars, signVars, devices, deviceListRef, rounds, fetches,
                   status, call, pending, scanner>>

NextHome ==
    \/ \E file \in HomeStores : FocusHome(file)
    \/ IntervalTick
    \/ \E r \in 1..Len(rounds) : \E answer \in Answers : Respond(r, answer)
    \/ \E r \in 1..Len(rounds) : Hang(r)
    \/ Teardown

SpecHome == InitHome /\ [][NextHome]_vars

\* the devices of a round whose status check has given its result
ResultsOf(round) ==
    IF round.phase = "done" THEN 1..round.i ELSE 1..(round.i - 1)

\* C8: when the status check of one device of a polling round never completes,
\* every other device of the round still gets its own status result.
C8_OthersStillChecked ==
    \A r \in 1..Len(rounds) :
        rounds[r].phase = "hung" =>
            \A k \in 1..Len(rounds[r].list) : k # rounds[r].i => k \in ResultsOf(rounds[r])

\* C9: once the polling effect is torn down no status request is started,
\* neither by the interval timer nor by a round that was in progress.
C9_NoRequestAfterTeardown == [][~isSubscribed => fetches' = fetches]_vars

\* C9 witness: a round in progress at teardown got the answer it awaited and
\* stopped with devices of its list left unchecked
C9_Witness ==
    /\ ~isSubscribed
    /\ \E r \in 1..Len(rounds) :
          rounds[r].phase = "done" /\ rounds[r].i < Len(rounds[r].list)

\* ------------------------------------------------------------------ command claims

\* the timestamp of a signed command: what follows the last "+" of action+time
\* is the 14 characters handleSign appended
TimestampOf(command) == Slice(command, Len(command) - 14, Len(command))

\* the action of a signed command: what precedes "+" and the timestamp
ActionOf(command) == Slice(command, 0, Len(command) - 15)

\* C11: the timestamp handleSign places in a signed command is exactly 14 ASCII
\* digits, YYYYMMDDHHMMSS of the instant in UTC; an instant that does not format
\* so is rejected and nothing is signed.
C11_TimestampFourteenDigits ==
    signLast.signed # NoSigned =>
        /\ Len(TimestampOf(signLast.signed.command)) = 14
        /\ \A i \in 1..14 : TimestampOf(signLast.signed.command)[i] \in Digits
        /\ TimestampOf(signLast.signed.command) = Format14(signLast.now)

\* the values the action picker of manage-device offers
Signout == <<"s", "i", "g", "n", "o", "u", "t">>
Restart == <<"r", "e", "s", "t", "a", "r", "t">>
ClosedActions == {Signout, Shutdown, Restart, Sleep}

\* C12: every command signed or transmitted is <action>+<timestamp> with the
\* action one of signout, shutdown, restart, sleep, whatever action parameter
\* the sign screen was opened with.
C12_ClosedActionSet ==
    signLast.signed # NoSigned =>
        /\ ActionOf(signLast.signed.command) \in ClosedActions
        /\ signLast.signed.command[Len(signLast.signed.command) - 14] = "+"

\* ------------------------------------------------------------------ registration claims

\* the steps of a registration before encryption succeed: the form is valid, the
\* key has a public key, neither the name nor the pubkey is in the file read
StepsSucceed(f, pre) ==
    /\ validateInputs(f) = NoError
    /\ getPublicKey(f.privateKey) # Undefined
    /\ ~NameIn(pre, f.deviceName)
    /\ ~PubkeyIn(pre, getPublicKey(f.privateKey))

\* C13: registration writes a record only if validation, key derivation, both
\* uniqueness checks and encryption succeeded; when a step fails the store is
\* unchanged; every record written carries a non-empty encryptedPrivKey and the
\* pubkey derived from the entered private key.
C13_WriteOnlyAfterAllSteps ==
    /\ \A i \in 1..Len(Records(store)) : Records(store)[i].encryptedPrivKey # <<>>
    /\ last.op = "saveDevice" =>
          /\ (~StepsSucceed(last.args, last.pre) \/ ~last.ok) => store = last.pre
          /\ store # last.pre =>
                /\ StepsSucceed(last.args, last.pre)
                /\ Len(Records(store)) = Len(Records(last.pre)) + 1
                /\ LET written == Records(store)[Len(Records(store))]
                   IN /\ written.pubkey = getPublicKey(last.args.privateKey)
                      /\ written.deviceName = last.args.deviceName
                      /\ written.relayUrl = last.args.relayUrl
                      /\ written.encryptedPrivKey # <<>>

\* C13 witness: a registration wrote a second record
C13_Witness ==
    /\ last.op = "saveDevice" /\ last.ok
    /\ Len(Records(store)) = 2 /\ store # last.pre

\* ------------------------------------------------------------------ secrecy claims

\* String.prototype.includes: part occurs in text
Contains(text, part) ==
    \E k \in 0..(Len(text) - Len(part)) : Slice(text, k, k + Len(part)) = part

\* a stored record holds no plaintext key: its fields are the four of Device,
\* its blob is 64 hex characters followed by the ciphertext, and the key the
\* ciphertext encrypts occurs in no text of the record
RecordHidesKey(device) ==
    /\ DOMAIN device = {"pubkey", "deviceName", "relayUrl", "encryptedPrivKey"}
    /\ Len(device.encryptedPrivKey) = 65
    /\ \A i \in 1..64 : device.encryptedPrivKey[i] \in Digits \cup HexLower
    /\ LET secret == device.encryptedPrivKey[65].plaintext
       IN /\ device.encryptedPrivKey[65].key.iterations = 1000
          /\ ~Contains(Slice(device.encryptedPrivKey, 0, 64), secret)
          /\ ~Contains(device.pubkey, secret)
          /\ ~Contains(device.deviceName, secret)
          /\ ~Contains(device.relayUrl, secret)

\* a request body holds pubkey, signature and command and no plaintext key
BodyHidesKey(body, device) ==
    /\ DOMAIN body = {"pubkey", "signature", "command"}
    /\ body.pubkey = device.pubkey
    /\ Len(body.signature) = 1
    /\ body.signature[1].signed = MessageHash(body.command)
    /\ ~Contains(body.command, device.encryptedPrivKey[65].plaintext)

\* C14: in every reachable state neither the persisted store nor a body sent to
\* the relay contains a plaintext private key: the key material of a record is
\* the blob of encryptPrivateKey, the body holds pubkey, signature and command.
C14_NoPlaintextKey ==
    /\ \A i \in 1..Len(Records(store)) : RecordHidesKey(Records(store)[i])
    /\ \A i \in 1..Len(signLast.requests) :
          BodyHidesKey(signLast.requests[i].body, sign.device)

\* C14 witness: the store holds registered devices and a signed command was sent
C14_Witness ==
    /\ Len(Records(store)) = 2
    /\ signLast.requests # <<>>

\* ------------------------------------------------------------------ Vault round trip

\* private keys and PINs that pass validateInputs()
VaultKeys == {K01, Kab, KAB}
Pin3 == <<"0", "0", "0", "0", "4", "2">>
VaultPins == {Pin1, Pin2, Pin3}

\* a key and a PIN are entered and the random source has given salt and IV
InitVault ==
    /\ store = NoFile
    /\ RegistryIdle /\ SignIdle /\ HomeIdle /\ StatusIdle /\ ScannerIdle
    /\ pending = <<>>
    /\ call \in {[phase |-> "typed", privKey |-> privKey, pin |-> pin,
                   saltBytes |-> saltBytes, ivBytes |-> ivBytes, blob |-> <<>>,
                   pinUsed |-> <<>>, decrypted |-> [value |-> <<>>, alerts |-> <<>>],
                   command |-> <<>>, signatures |-> <<>>] :
                      privKey \in VaultKeys, pin \in VaultPins,
                      saltBytes \in RandomBytes16, ivBytes \in RandomBytes16}

\* encryptPrivateKey() at registration
VaultEncrypt ==
    /\ call.phase = "typed"
    /\ call' = [call EXCEPT
                   !.phase = "sealed",
                   !.blob = encryptPrivateKey(call.privKey, call.pin, call.saltBytes,
                                              call.ivBytes, FALSE)]
    /\ UNCHANGED <<store, registryVars, signVars, homeVars, status, pending, scanner>>

\* decryptPrivateKey() on the stored blob with the PIN typed on the sign screen
VaultDecrypt(pinCode, wrongKeyOutcome) ==
    /\ call.phase = "sealed"
    /\ call' = [call EXCEPT
                   !.phase = "opened",
                   !.pinUsed = pinCode,
                   !.decrypted = decryptPrivateKey(call.blob, pinCode, wrongKeyOutcome)]
    /\ UNCHANGED <<store, registryVars, signVars, homeVars, status, pending, scanner>>

\* calls of signCommand() the model follows on one decrypted key
MaxSigns == 3

\* the commands signed: one action at two instants
VaultCommands ==
    {Shutdown \o <<"+">> \o currentTimeOf(now) :
        now \in {Instant(2024, 1, 1, 0, 0, 0, 0), Instant(2026, 11, 3, 14, 8, 59, 123)}}

\* signCommand() on what decryption returned, as handleSign calls it when the
\* value is not empty
VaultSign(command) ==
    /\ call.phase = "opened"
    /\ call.decrypted.value # <<>>
    /\ Len(call.signatures) < MaxSigns
    /\ call' = [call EXCEPT
                   !.signatures =
                       Append(@, [command |-> command,
                                  signatureHex |->
                                      signCommand(command, call.decrypted.value)
                                          .result.signatureHex])]
    /\ UNCHANGED <<store, registryVars, signVars, homeVars, status, pending, scanner>>

NextVault ==
    \/ VaultEncrypt
    \/ \E pinCode \in VaultPins, wrongKeyOutcome \in WrongKeyOutcomes :
          VaultDecrypt(pinCode, wrongKeyOutcome)
    \/ \E command \in VaultCommands : VaultSign(command)

SpecVault == InitVault /\ [][NextVault]_vars

\* C15: decryptPrivateKey on the blob of encryptPrivateKey, with the same PIN,
\* returns the key that was encrypted: the split of the blob recovers the salt,
\* the IV and the ciphertext, and both sides derive the same key.
C15_RoundTrip ==
    (call.phase = "opened" /\ call.pinUsed = call.pin) =>
        /\ call.decrypted.value = call.privKey
        /\ call.decrypted.alerts = <<>>
        /\ Slice(call.blob, 0, 32) = bytesToHex(call.saltBytes)
        /\ Slice(call.blob, 32, 64) = bytesToHex(call.ivBytes)
        /\ Len(call.blob) = 65

\* C15 witness: a blob whose salt has bytes below 16 and above 127 was opened
\* with its PIN
C15_Witness ==
    /\ call.phase = "opened" /\ call.pinUsed = call.pin
    /\ call.saltBytes = BytesC
    /\ call.decrypted.value = call.privKey

C17_UpdateFrame ==
    (last.op = "saveChanges" /\ last.ok /\ PubkeyIn(last.pre, last.args.pubkey)) =>
        /\ Len(Records(store)) = Len(Records(last.pre))
        /\ \A i \in 1..Len(Records(last.pre)) :
              IF Records(last.pre)[i].pubkey = last.args.pubkey
              THEN /\ Records(store)[i].pubkey = Records(last.pre)[i].pubkey
                   /\ Records(store)[i].encryptedPrivKey
                          = Records(last.pre)[i].encryptedPrivKey
                   /\ Records(store)[i].deviceName = last.args.deviceName
                   /\ Records(store)[i].relayUrl = last.args.relayUrl
                   /\ DOMAIN Records(store)[i] = DOMAIN Records(last.pre)[i]
              ELSE Records(store)[i] = Records(last.pre)[i]

\* C17 witness: one of two records was given another name and URL
C17_Witness ==
    /\ last.op = "saveChanges" /\ last.ok
    /\ Len(Records(last.pre)) = 2
    /\ PubkeyIn(last.pre, last.args.pubkey)
    /\ store # last.pre

\* the list without the records of a pubkey, in its order
Without(list, pubkey) ==
    LET Others(device) == device.pubkey # pubkey
    IN SelectSeq(list, Others)

\* C18: when a confirmed deleteDevice completes, the persisted collection has no
\* record with the pubkey and holds all other records unchanged in their order;
\* a cancelled delete dialog leaves the store unchanged.
C18_DeleteFrame ==
    [][/\ (dialog = "confirmDelete" /\ dialog' = "none") => store' = store
       /\ (dialog = "confirmDelete" /\ dialog' = "success") =>
             /\ Records(store') = Without(Records(store), editPubkey)
             /\ ~PubkeyIn(store', editPubkey)]_vars

\* C18 witness: the first of two records was deleted and the other one remains
C18_Witness ==
    /\ last.op = "deleteDevice" /\ last.ok
    /\ Len(Records(last.pre)) = 2
    /\ Records(last.pre)[1].pubkey = last.args
    /\ Len(Records(store)) = 1

\* ------------------------------------------------------------------ crypto input claims

\* handleSign() got as far as calling signCommand()
ReachedSigning ==
    /\ signLast.op = "handleSign"
    /\ sign.device # NoDevice /\ sign.action # <<>>
    /\ IsPin(signLast.pin)
    /\ Len(currentTimeOf(signLast.now)) = 14
    /\ decryptPrivateKey(sign.device.encryptedPrivKey, signLast.pin,
                         signLast.decrypt).value # <<>>

\* the privateKeyHex handleSign() passed to signCommand()
KeyPassedToSigning ==
    decryptPrivateKey(sign.device.encryptedPrivKey, signLast.pin, signLast.decrypt).value

\* C19: no crypto primitive is invoked with malformed input: on the signing
\* path the PIN is 6 digits and the private key handed to signing, which comes
\* out of decryption, is 64 hex characters.
C19_CryptoInputsWellFormed ==
    ReachedSigning => IsPin(signLast.pin) /\ IsHex64(KeyPassedToSigning)

\* ------------------------------------------------------------------ registry races

\* registry mutations that may be in flight together
MaxWriters == 2

\* FileSystem.writeAsStringAsync(DEVICES_FILE, content): the file holds content
writeAsStringAsync_Appending(current, content) ==
    JSONStringify(Records(current) \o Records(content))

writeAsStringAsync(current, content) == content

\* the mutations started: an add of a third device or of a second "pc", an
\* edit and a delete of the device "pc"
NoForm == [privateKey |-> <<>>, deviceName |-> <<>>, relayUrl |-> <<>>, pin |-> <<>>]
Mutations ==
    {[op |-> "saveDevice", pubkey |-> <<>>,
      form |-> [privateKey |-> Kab, deviceName |-> <<"t", "v">>, relayUrl |-> Url1,
                pin |-> Pin2]],
     [op |-> "saveDevice", pubkey |-> <<>>,
      form |-> [privateKey |-> K01, deviceName |-> <<"p", "c">>, relayUrl |-> Url1,
                pin |-> Pin1]],
     [op |-> "saveChanges", pubkey |-> getPublicKey(K01),
      form |-> [NoForm EXCEPT !.deviceName = <<"l", "a", "b">>, !.relayUrl = Url2]],
     [op |-> "deleteDevice", pubkey |-> getPublicKey(K01), form |-> NoForm]}

\* what a mutation that read snapshot goes on to do: the content it writes, or
\* no write when it fails
OutcomeOf(mutation, snapshot) ==
    IF mutation.op = "saveDevice"
    THEN saveDevice(snapshot, mutation.form, BytesA, BytesB, "none")
    ELSE IF mutation.op = "saveChanges"
    THEN saveChanges(snapshot, mutation.pubkey, mutation.form.deviceName,
                     mutation.form.relayUrl, "none")
    ELSE deleteDevice(snapshot, mutation.pubkey, "none")

InitRace ==
    /\ store \in {JSONStringify(<<>>), JSONStringify(SubSeq(SignStore.items, 1, 1)),
                   SignStore}
    /\ RegistryIdle /\ SignIdle /\ HomeIdle /\ StatusIdle /\ ScannerIdle
    /\ call = NoCall
    /\ pending = <<>>

\* a handler reads the whole file: loadExistingDevices() or readAsStringAsync
RaceRead(mutation) ==
    /\ Len(pending) < MaxWriters
    /\ pending' = Append(pending, [mutation |-> mutation, snapshot |-> store,
                                    phase |-> "read", ok |-> FALSE, writtenAt |-> 0])
    /\ UNCHANGED <<store, registryVars, signVars, homeVars, status, call, scanner>>

\* the handler goes on from its snapshot and writes the whole file, or fails
\* and writes nothing
RaceWrite(k) ==
    /\ pending[k].phase = "read"
    /\ LET out == OutcomeOf(pending[k].mutation, pending[k].snapshot)
           writes == Cardinality({j \in 1..Len(pending) : pending[j].writtenAt > 0})
       IN /\ store' = IF out.ok THEN writeAsStringAsync(store, out.file) ELSE store
          /\ pending' = [pending EXCEPT
                            ![k].phase = "done",
                            ![k].ok = out.ok,
                            ![k].writtenAt = IF out.ok THEN writes + 1 ELSE 0]
    /\ UNCHANGED <<registryVars, signVars, homeVars, status, call, scanner>>

NextRace ==
    \/ \E mutation \in Mutations : RaceRead(mutation)
    \/ \E k \in 1..Len(pending) : RaceWrite(k)

SpecRace == InitRace /\ [][NextRace]_vars

\* the mutations that have written, and the last of them
Writers == {k \in 1..Len(pending) : pending[k].writtenAt > 0}
LastWriter ==
    CHOOSE k \in Writers : \A j \in Writers : pending[j].writtenAt <= pending[k].writtenAt

\* C20: when registry mutations interleave, the store holds exactly what the
\* last writer wrote, computed from the snapshot it read: the change of an
\* earlier writer that it did not read is lost, nothing is merged.
C20_LastWriterWins ==
    Writers # {} =>
        store = OutcomeOf(pending[LastWriter].mutation, pending[LastWriter].snapshot).file

\* C20 witness: two mutations read the same file before either wrote, both
\* wrote, and the first writer's record is not in the store
C20_Witness ==
    /\ Len(pending) = 2
    /\ Writers = {1, 2}
    /\ pending[1].snapshot = pending[2].snapshot
    /\ pending[1].mutation.op = "saveDevice"
    /\ pending[2].mutation.op = "saveChanges"
    /\ pending[1].writtenAt = 1
    /\ ~PubkeyIn(store, getPublicKey(pending[1].mutation.form.privateKey))

\* ------------------------------------------------------------------ isLoading claims

\* C21: every started save or delete ends with isLoading back to false while
\* its screen is still shown, on every path, so the buttons of the screen are
\* not left disabled.
C21_LoadingEnds ==
    (last.op \in {"saveDevice", "saveChanges", "deleteDevice"} /\ screen \in {"add", "edit"})
        => ~isLoading

\* ------------------------------------------------------------------ Home: polling for ever

\* rounds of checkAllDevices() that may be under way together
MaxInFlight == 1

\* devices.json as Home finds it on focus: unreadable, empty, one or two devices
PollingStores ==
    {Unparseable, JSONStringify(<<>>), JSONStringify(SubSeq(SignStore.items, 1, 1)),
     SignStore}

\* Home is mounted and stays so; rounds holds the rounds under way only
InitPolling ==
    /\ store \in PollingStores
    /\ RegistryIdle /\ SignIdle /\ StatusIdle /\ CallIdle /\ ScannerIdle
    /\ devices = <<>>
    /\ deviceListRef = <<>>
    /\ isSubscribed = TRUE
    /\ intervalActive = TRUE
    /\ rounds = <<>>
    /\ fetches = 0

\* the rounds that are not over
Unfinished(list) ==
    LET Waiting(round) == round.phase = "waiting"
    IN SelectSeq(list, Waiting)

\* the interval timer fires, every POLLING_INTERVAL for as long as Home is
\* mounted: checkAllDevices() starts on the list of deviceListRef
PollTick ==
    /\ intervalActive /\ isSubscribed
    /\ Len(rounds) < MaxInFlight
    /\ rounds' = Unfinished(Append(rounds,
                     stepRound(isSubscribed,
                               [list |-> deviceListRef, i |-> 0, phase |-> "waiting"])))
    /\ UNCHANGED <<store, registryVars, signVars, devices, deviceListRef, isSubscribed,
                   intervalActive, fetches, status, call, pending, scanner>>

\* the status request round r awaits settles: checkDeviceStatus() updates the
\* list and the round goes to its next device or ends
PollRespond(r, answer) ==
    /\ r <= Len(rounds)
    /\ rounds[r].phase = "waiting"
    /\ devices' = checkDeviceStatus(devices, rounds[r].list[rounds[r].i], answer)
    /\ deviceListRef' = devices'
    /\ rounds' = Unfinished([rounds EXCEPT ![r] = stepRound(isSubscribed, rounds[r])])
    /\ UNCHANGED <<store, registryVars, signVars, isSubscribed, intervalActive, fetches,
                   status, call, pending, scanner>>

NextPolling ==
    \/ \E file \in PollingStores : FocusHome(file)
    \/ PollTick
    \/ \E r \in 1..MaxInFlight : \E answer \in Answers : PollRespond(r, answer)

\* the timer keeps firing and every status request completes
SpecPolling ==
    /\ InitPolling /\ [][NextPolling]_vars
    /\ WF_vars(PollTick)
    /\ \A r \in 1..MaxInFlight : WF_vars(\E answer \in Answers : PollRespond(r, answer))

\* the device of a pubkey is in the list and shows "Checking..."
Checking(pubkey) ==
    \E k \in 1..Len(devices) : devices[k].pubkey = pubkey /\ devices[k].isLoading

\* C22: while Home stays mounted and every status request completes, every
\* device loaded from the store leaves the "Checking..." state, also when it
\* was loaded after a round on the empty list or reset by a reload on focus;
\* and a record leaves that state only by a result for its own pubkey.
C22_CheckingEnds ==
    /\ \A pubkey \in RoutePubkeys : Checking(pubkey) ~> ~Checking(pubkey)
    /\ [][\A k \in 1..Len(devices) :
             (Len(devices') = Len(devices) /\ devices[k].isLoading
              /\ ~devices'[k].isLoading) =>
                 \E r \in 1..Len(rounds) :
                     rounds[r].list[rounds[r].i].pubkey = devices[k].pubkey]_vars

\* C22 witness: two devices were loaded and both have left "Checking..."
C22_Witness ==
    /\ isSubscribed /\ intervalActive
    /\ Len(devices) = 2
    /\ \A k \in 1..2 : ~devices[k].isLoading

\* ------------------------------------------------------- add-device: QR scanner

MaxMounts == 2

K65 == Append(K01, "0")
Kletter == [K01 EXCEPT ![1] = "z"]

\* what the camera can read off a QR code
ScanData == {K01, KAB, Kshort, K65, Kletter, <<>>}

\* /^[0-9a-fA-F]{64}$/.test(data)
matchesKeyPattern(data) == Len(data) = 64 /\ \A i \in 1..Len(data) : data[i] \in HexChars

\* onClose(): add-device hides the Modal and the QrCodeScanner unmounts; its
\* state and its ref go with it, timers already set stay set
onClose(s) ==
    [ScannerClosed EXCEPT !.instance = s.instance, !.timers = s.timers,
                          !.privateKey = s.privateKey, !.last = s.last]

\* handleBarcodeScanned({ data }); onScanned is setPrivateKey of add-device
handleBarcodeScanned(s, data) ==
    IF s.scanCooldown \/ s.scanned
    THEN [s EXCEPT !.last = [data |-> data, outcome |-> "ignored"]]
    ELSE IF ~matchesKeyPattern(data)
    THEN [s EXCEPT !.scanCooldown = TRUE, !.alertOpen = TRUE,
                   !.last = [data |-> data, outcome |-> "invalid"]]
    ELSE onClose([s EXCEPT !.scanned = TRUE, !.privateKey = data,
                           !.last = [data |-> data, outcome |-> "accepted"]])

InitScanner ==
    /\ store = NoFile
    /\ RegistryIdle /\ SignIdle /\ HomeIdle /\ StatusIdle /\ CallIdle /\ ScannerIdle

\* the Scan button of add-device: the Modal shows a new QrCodeScanner
OpenScanner ==
    /\ ~scanner.visible /\ ~isLoading
    /\ scanner.instance < MaxMounts
    /\ scanner' = [scanner EXCEPT !.visible = TRUE, !.instance = scanner.instance + 1]
    /\ UNCHANGED <<store, registryVars, signVars, homeVars, status, call, pending>>

\* requestCameraPermissionsAsync() resolves
PermissionAnswer(granted) ==
    /\ scanner.visible /\ scanner.hasPermission = "null"
    /\ scanner' = [scanner EXCEPT !.hasPermission = IF granted THEN "granted" ELSE "denied"]
    /\ UNCHANGED <<store, registryVars, signVars, homeVars, status, call, pending>>

\* the CameraView reads a QR code; it has no handler once scanned is true
BarcodeScanned(data) ==
    /\ scanner.visible /\ scanner.hasPermission = "granted" /\ ~scanner.scanned
    /\ scanner' = handleBarcodeScanned(scanner, data)
    /\ UNCHANGED <<store, registryVars, signVars, homeVars, status, call, pending>>

\* the OK button of the "Invalid QR Code" alert: its onPress sets the timer
PressScanOK ==
    /\ scanner.alertOpen
    /\ scanner' = [scanner EXCEPT !.alertOpen = FALSE,
                                  !.timers = scanner.timers \cup {scanner.instance}]
    /\ UNCHANGED <<store, registryVars, signVars, homeVars, status, call, pending>>

\* the alert goes without its button: Alert.alert() is given no options, so
\* no onDismiss, and nothing of the scanner runs
ScanAlertDismissed ==
    /\ scanner.alertOpen
    /\ scanner' = [scanner EXCEPT !.alertOpen = FALSE]
    /\ UNCHANGED <<store, registryVars, signVars, homeVars, status, call, pending>>

\* 1000 ms after OK: scanCooldown.current = false, on the ref of the
\* QrCodeScanner that raised the alert
ScanTimerFires(id) ==
    /\ id \in scanner.timers
    /\ scanner' = [scanner EXCEPT
                      !.timers = scanner.timers \ {id},
                      !.scanCooldown = IF scanner.visible /\ id = scanner.instance
                                       THEN FALSE ELSE scanner.scanCooldown]
    /\ UNCHANGED <<store, registryVars, signVars, homeVars, status, call, pending>>

\* Close Scanner, or hardwareBackPress; an alert on display takes both
CloseScanner ==
    /\ scanner.visible /\ ~scanner.alertOpen
    /\ scanner' = onClose(scanner)
    /\ UNCHANGED <<store, registryVars, signVars, homeVars, status, call, pending>>

NextScanner ==
    \/ OpenScanner
    \/ \E granted \in BOOLEAN : PermissionAnswer(granted)
    \/ \E data \in ScanData : BarcodeScanned(data)
    \/ PressScanOK
    \/ ScanAlertDismissed
    \/ \E id \in 1..MaxMounts : ScanTimerFires(id)
    \/ CloseScanner

\* a timer that is set fires
SpecScanner ==
    InitScanner /\ [][NextScanner]_vars
    /\ \A id \in 1..MaxMounts : WF_vars(ScanTimerFires(id))

\* onScanned() gets nothing but 64 hex digits
OnlyKeysScanned ==
    /\ scanner.last.outcome = "accepted" => matchesKeyPattern(scanner.last.data)
    /\ scanner.privateKey # <<>> => matchesKeyPattern(scanner.privateKey)

\* with the cooldown set a scan hands over no key and raises no alert
CooldownBlocksScans ==
    [][(scanner.visible /\ scanner.scanCooldown)
          => /\ scanner'.privateKey = scanner.privateKey
             /\ scanner'.alertOpen => scanner.alertOpen]_vars

\* the alert closed, the cooldown of the scanner on display ends
CooldownEnds ==
    (scanner.visible /\ scanner.scanCooldown /\ ~scanner.alertOpen) ~> ~scanner.scanCooldown

====
